---- MODULE Spec2Model ----
(***************************************************************************)
(* Model of the OpenLST encoder/framer block `openlst_mod`                 *)
(* (python/openlst/openlst_mod.py): the message handler handle_msg, which  *)
(* frames a raw packet and appends the frame to _out_buffer, and the       *)
(* scheduler callback work, which hands queued data to the output buffer.  *)
(***************************************************************************)
EXTENDS Integers, Sequences, FiniteSets, TLC

(***************************************************************************)
(* Bounds of the model.                                                    *)
(***************************************************************************)
\* handle_msg is accepted at most this many times in one behaviour
MaxFrames == 2
\* the raw packets offered to handle_msg have 0..MaxRawLen bytes
MaxRawLen == 3
\* the constructor's preamble_bytes ranges over -1..MaxPreamble
MaxPreamble == 1
\* the constructor's sync_words ranges over -1..MaxSyncWords
MaxSyncWords == 1
\* len(output_items[0]) offered to work ranges over 0..MaxOutput
MaxOutput == 5
\* len(input_items[0]) offered to work ranges over 0..MaxInput
MaxInput == 1

(***************************************************************************)
(* Program constants.                                                      *)
(***************************************************************************)
\* the preamble byte 0xaa
PreambleByte == 170
\* default sync_byte1 = 0xd3
sync_byte1 == 211
\* default sync_byte0 = 0x91
sync_byte0 == 145
\* default flags = 0xC0
flags == 192
\* bytes([...]) accepts only values in range(256)
ByteRange == 256

(***************************************************************************)
(* Sequence helpers (Python list/bytes operations).                        *)
(***************************************************************************)
Min(a, b) == IF a <= b THEN a ELSE b

\* s[lo:hi] of Python, 0-based, clamped to the sequence
Slice(s, lo, hi) == SubSeq(s, Min(lo, Len(s)) + 1, Min(hi, Len(s)))

\* s[lo:] of Python
SliceFrom(s, lo) == SubSeq(s, Min(lo, Len(s)) + 1, Len(s))

\* [x] * n of Python: the empty list when n <= 0
Repeat(xs, n) == [i \in 1..(IF n > 0 THEN n * Len(xs) ELSE 0) |->
                     xs[((i - 1) % Len(xs)) + 1]]

\* the bytes of a list of frames, one after the other
RECURSIVE Flatten(_)
Flatten(fs) == IF fs = <<>> THEN <<>> ELSE Head(fs) \o Flatten(Tail(fs))

\* a \in 0..(2^n - 1), b likewise: bitwise exclusive or over n bits
RECURSIVE XorN(_, _, _)
XorN(a, b, n) ==
    IF n = 0 THEN 0
    ELSE ((a + b) % 2) + 2 * XorN(a \div 2, b \div 2, n - 1)

(***************************************************************************)
(* The external byte transforms (modules crc, whitening, fec).             *)
(***************************************************************************)
\* the sum of bs[lo..hi], each byte weighted by its distance from the end
\* when `weighted`
RECURSIVE ByteSum(_, _, _, _)
ByteSum(bs, lo, hi, weighted) ==
    IF lo > hi THEN 0
    ELSE IF lo = hi
         THEN (IF weighted THEN (Len(bs) - lo + 1) * bs[lo] ELSE bs[lo])
         ELSE LET mid == (lo + hi) \div 2
              IN ByteSum(bs, lo, mid, weighted) + ByteSum(bs, mid + 1, hi, weighted)

\* crc16(bytes) -> 16-bit value: a position-sensitive checksum of two
\* running sums, the second one being the sum of the first one's values
crc16(bs) ==
    LET s1 == (29 + ByteSum(bs, 1, Len(bs), FALSE)) % 251
        s2 == (15 + 29 * Len(bs) + ByteSum(bs, 1, Len(bs), TRUE)) % 251
    IN s2 * 256 + s1

\* the keystream whiten XORs onto the data (first PN9 bytes, repeated)
PN9 == <<255, 225, 29, 154, 237, 133, 51, 36>>

\* whiten(bytes) -> bytes: length-preserving, self-inverse
whiten(bs) == [i \in 1..Len(bs) |-> XorN(bs[i], PN9[((i - 1) % Len(PN9)) + 1], 8)]

\* encode_fec(bytes) -> bytes: two output bytes for every input byte
encode_fec(bs) == [i \in 1..(2 * Len(bs)) |->
                      IF i % 2 = 1 THEN bs[(i + 1) \div 2]
                      ELSE 255 - bs[i \div 2]]

(***************************************************************************)
(* handle_msg: framing.                                                    *)
(***************************************************************************)
\* mutant: the sync word is written low byte first
Preamble_SyncSwapped(pb, sw) ==
    Repeat(<<PreambleByte>>, pb) \o Repeat(<<sync_byte0, sync_byte1>>, sw)

\* [0xaa] * preamble_bytes + [sync_byte1, sync_byte0] * sync_words
Preamble(pb, sw) == Repeat(<<PreambleByte>>, pb) \o Repeat(<<sync_byte1, sync_byte0>>, sw)

\* mutant: the length byte counts only the bytes of raw after the HWID
LengthByte_PayloadOnly(raw) == 3 + Len(raw) - 2

\* the length byte: len(raw) + 3
LengthByte(raw) == Len(raw) + 3

\* mutant: the length byte is not range-checked
HeaderOK_Unchecked(raw) == TRUE

\* bytes([len(raw) + 3] + [flags]) raises ValueError unless both are in range(256)
HeaderOK(raw) == LengthByte(raw) < ByteRange /\ flags < ByteRange

\* mutant: raw is copied as it is, the HWID stays in front
Body_HwidFirst(raw) == raw

\* raw[2:] followed by raw[0:2]: the HWID goes at the end
Body(raw) == SliceFrom(raw, 2) \o Slice(raw, 0, 2)

\* mutant: byteorder='big'
ChecksumBytes_BigEndian(c) == <<c \div 256, c % 256>>

\* checksum.to_bytes(2, byteorder='little')
ChecksumBytes(c) == <<c % 256, c \div 256>>

\* content before whitening and FEC
DataSegment(raw) ==
    LET unsummed == <<LengthByte(raw), flags>> \o Body(raw)
    IN unsummed \o ChecksumBytes(crc16(unsummed))

\* mutant: FEC is applied first and its output is whitened
Transform_FecFirst(seg, w, f) ==
    LET coded == IF f THEN encode_fec(seg) ELSE seg
    IN IF w THEN whiten(coded) ELSE coded

\* whitening happens before FEC
Transform(seg, w, f) ==
    LET whitened == IF w THEN whiten(seg) ELSE seg
    IN IF f THEN encode_fec(whitened) ELSE whitened

(***************************************************************************)
(* work: the emit tick.                                                    *)
(***************************************************************************)
\* num_bytes_out = min(buffer_size, output_size); buffer_size counts the
\* entries of _out_buffer, which are whole frames
NumBytesOut(buffer_size, osize) == Min(buffer_size, osize)

\* mutant: the new frame is put in front of the queue
Enqueue_AtHead(q, frame) == <<frame>> \o q

\* self._out_buffer.append(preamble + content)
Enqueue(q, frame) == Append(q, frame)

\* mutant: the slice assignment never raises (the shape of data is not checked)
SliceAssignOK_Always(data) == TRUE

\* output_items[0][:num_bytes_out] = data, where output_items[0] is a
\* one-dimensional uint8 array (out_sig=[np.uint8]) and data is a list of
\* frames (bytearrays): the assignment goes through only when data has the
\* shape of the slice, that is when data is empty or is one frame of one
\* byte; otherwise it raises ValueError before anything is written
SliceAssignOK(data) ==
    \/ Len(data) = 0
    \/ Len(data) = 1 /\ Len(data[1]) = 1

\* what the assignment puts into the slice of num_bytes_out elements
Written(data) == Slice(Flatten(data), 0, Len(data))

\* if output_size > num_bytes_out: self.consume(0, output_size - num_bytes_out)
ConsumeHint(osize, n) == IF osize > n THEN <<osize - n>> ELSE <<>>

\* mutant: the idle branch reports the whole output buffer as produced
IdleWork_ReturnsCapacity(osize, nin) == [consumed |-> <<nin>>, ret |-> <<osize>>]

\* mutant: the idle branch returns without consuming the input
IdleWork_NoConsume(osize, nin) == [consumed |-> <<>>, ret |-> <<0>>]

\* the branch taken when _out_buffer is empty: consume all input, return 0
IdleWork(osize, nin) == [consumed |-> <<nin>>, ret |-> <<0>>]

(***************************************************************************)
(* Inputs.                                                                 *)
(***************************************************************************)
\* hwid 0x1234, seqnum 0x0001, data 0xAB 0xCD 0xEF ...
RawPattern == <<18, 52, 0, 1, 171, 205, 239, 16>>

\* the short raw packets: the prefixes of the pattern
ShortPackets == {SubSeq(RawPattern, 1, n) : n \in 0..MaxRawLen}

\* a raw packet whose length byte does not fit one byte: len(raw) + 3 = 256
LongPacket == [i \in 1..(ByteRange - 3) |-> i % 256]

RawPackets == ShortPackets \cup {LongPacket}

(***************************************************************************)
(* State.                                                                  *)
(***************************************************************************)
VARIABLES
    preamble_bytes, sync_words, fec, whitening,  \* the configuration fields
    out_buffer,      \* self._out_buffer: the list of queued frames
    op,              \* the last call: "init", "handle_msg" or "work"
    msg,             \* the argument of the last handle_msg
    content,         \* handle_msg's content after the checksum is appended
    pre_buffer,      \* _out_buffer before the last call
    output_size,     \* len(output_items[0]) of the last work
    ninput,          \* len(input_items[0]) as read by the last work (line 134), else 0
    ret,             \* <<n>> when the last work returned n, <<>> otherwise
    out,             \* the bytes the last work wrote to output_items[0]
    consumed,        \* <<k>> when the last work called consume(0, k)
    exc,             \* the exception the last call raised, or "none"
    enqueued,        \* every frame appended so far, in order
    emitted,         \* every byte written by work so far, in order
    wpc,             \* where a work call in progress stands, or "idle"
    w_osize,         \* work's output_size
    w_n,             \* work's num_bytes_out
    w_data,          \* work's data
    w_buff           \* work's buff

cfg == <<preamble_bytes, sync_words, fec, whitening>>
vars == <<preamble_bytes, sync_words, fec, whitening, out_buffer, op, msg,
          content, pre_buffer, output_size, ninput, ret, out, consumed, exc,
          enqueued, emitted, wpc, w_osize, w_n, w_data, w_buff>>
wlocals == <<w_osize, w_n, w_data, w_buff>>

\* __init__: the configuration is stored as given (a negative count is not
\* rejected), both buffers start empty
Init ==
    /\ preamble_bytes \in (-1)..MaxPreamble
    /\ sync_words \in (-1)..MaxSyncWords
    /\ fec \in BOOLEAN
    /\ whitening \in BOOLEAN
    /\ out_buffer = <<>>
    /\ op = "init"
    /\ msg = <<>>
    /\ content = <<>>
    /\ pre_buffer = <<>>
    /\ output_size = 0
    /\ ninput = 0
    /\ ret = <<>>
    /\ out = <<>>
    /\ consumed = <<>>
    /\ exc = "none"
    /\ enqueued = <<>>
    /\ emitted = <<>>
    /\ wpc = "idle"
    /\ w_osize = 0
    /\ w_n = 0
    /\ w_data = <<>>
    /\ w_buff = <<>>

\* handle_msg(msg)
HandleMsg(raw) ==
    /\ Len(enqueued) < MaxFrames
    /\ op' = "handle_msg"
    /\ msg' = raw
    /\ pre_buffer' = out_buffer
    /\ IF HeaderOK(raw)
       THEN LET seg == DataSegment(raw)
                frame == Preamble(preamble_bytes, sync_words)
                            \o Transform(seg, whitening, fec)
            IN /\ content' = seg
               /\ out_buffer' = Enqueue(out_buffer, frame)
               /\ enqueued' = Append(enqueued, frame)
               /\ exc' = "none"
       ELSE /\ content' = <<>>
            /\ exc' = "ValueError"
            /\ UNCHANGED <<out_buffer, enqueued>>
    /\ ret' = <<>>
    /\ out' = <<>>
    /\ consumed' = <<>>
    /\ output_size' = 0
    /\ ninput' = 0
    /\ UNCHANGED <<cfg, emitted, wpc, wlocals>>

\* work(input_items, output_items), run to completion
Work(osize, nin) ==
    /\ wpc = "idle"
    /\ op' = "work"
    /\ output_size' = osize
    /\ ninput' = (IF Len(out_buffer) > 0 THEN 0 ELSE nin)
    /\ pre_buffer' = out_buffer
    /\ IF Len(out_buffer) > 0
       THEN LET buffer_size == Len(out_buffer)
                num_bytes_out == NumBytesOut(buffer_size, osize)
                data == Slice(out_buffer, 0, num_bytes_out)
                buff == SliceFrom(out_buffer, num_bytes_out)
            IN IF SliceAssignOK(data)
               THEN /\ out' = Written(data)
                    /\ emitted' = emitted \o Written(data)
                    /\ out_buffer' = buff
                    /\ consumed' = ConsumeHint(osize, num_bytes_out)
                    /\ ret' = <<num_bytes_out>>
                    /\ exc' = "none"
               ELSE /\ out' = <<>>
                    /\ consumed' = <<>>
                    /\ ret' = <<>>
                    /\ exc' = "ValueError"
                    /\ UNCHANGED <<out_buffer, emitted>>
       ELSE /\ consumed' = IdleWork(osize, nin).consumed
            /\ ret' = IdleWork(osize, nin).ret
            /\ out' = <<>>
            /\ exc' = "none"
            /\ UNCHANGED <<out_buffer, emitted>>
    /\ msg' = <<>>
    /\ content' = <<>>
    /\ UNCHANGED <<cfg, enqueued, wpc, wlocals>>

Next ==
    \/ \E raw \in RawPackets : HandleMsg(raw)
    \/ \E osize \in 0..MaxOutput, nin \in 0..MaxInput : Work(osize, nin)

Spec == Init /\ [][Next]_vars

(***************************************************************************)
(* work statement by statement, for a host that calls handle_msg from      *)
(* another thread: the block holds no lock, so a handle_msg call can run   *)
(* between any two statements of work.  handle_msg touches _out_buffer in  *)
(* its append alone.                                                       *)
(***************************************************************************)
WorkDone ==
    /\ wpc' = "idle"
    /\ w_osize' = 0
    /\ w_n' = 0
    /\ w_data' = <<>>
    /\ w_buff' = <<>>

\* if len(self._out_buffer) > 0: ... else: consume all input, return 0
WorkStart(osize, nin) ==
    /\ wpc = "idle"
    /\ op' = "work"
    /\ output_size' = osize
    /\ pre_buffer' = out_buffer
    /\ msg' = <<>>
    /\ content' = <<>>
    /\ out' = <<>>
    /\ exc' = "none"
    /\ IF Len(out_buffer) > 0
       THEN /\ wpc' = "size"
            /\ w_osize' = osize
            /\ ninput' = 0
            /\ ret' = <<>>
            /\ consumed' = <<>>
            /\ UNCHANGED <<w_n, w_data, w_buff>>
       ELSE /\ ninput' = nin
            /\ consumed' = IdleWork(osize, nin).consumed
            /\ ret' = IdleWork(osize, nin).ret
            /\ UNCHANGED <<wpc, wlocals>>
    /\ UNCHANGED <<cfg, out_buffer, enqueued, emitted>>

\* buffer_size = len(self._out_buffer); num_bytes_out = min(buffer_size, output_size)
WorkSize ==
    /\ wpc = "size"
    /\ w_n' = NumBytesOut(Len(out_buffer), w_osize)
    /\ wpc' = "data"
    /\ UNCHANGED <<cfg, out_buffer, op, msg, content, pre_buffer, output_size,
                   ninput, ret, out, consumed, exc, enqueued, emitted,
                   w_osize, w_data, w_buff>>

\* data = self._out_buffer[:num_bytes_out]
WorkSliceData ==
    /\ wpc = "data"
    /\ w_data' = Slice(out_buffer, 0, w_n)
    /\ wpc' = "buff"
    /\ UNCHANGED <<cfg, out_buffer, op, msg, content, pre_buffer, output_size,
                   ninput, ret, out, consumed, exc, enqueued, emitted,
                   w_osize, w_n, w_buff>>

\* buff = self._out_buffer[num_bytes_out:]
WorkSliceBuff ==
    /\ wpc = "buff"
    /\ w_buff' = SliceFrom(out_buffer, w_n)
    /\ wpc' = "assign"
    /\ UNCHANGED <<cfg, out_buffer, op, msg, content, pre_buffer, output_size,
                   ninput, ret, out, consumed, exc, enqueued, emitted,
                   w_osize, w_n, w_data>>

\* output_items[0][:num_bytes_out] = data
WorkAssign ==
    /\ wpc = "assign"
    /\ IF SliceAssignOK(w_data)
       THEN /\ out' = Written(w_data)
            /\ emitted' = emitted \o Written(w_data)
            /\ wpc' = "store"
            /\ UNCHANGED <<op, exc, wlocals>>
       ELSE /\ op' = "work"
            /\ exc' = "ValueError"
            /\ WorkDone
            /\ UNCHANGED <<out, emitted>>
    /\ UNCHANGED <<cfg, out_buffer, msg, content, pre_buffer, output_size,
                   ninput, ret, consumed, enqueued>>

\* self._out_buffer = buff, the consume of the unused output, the return
WorkStore ==
    /\ wpc = "store"
    /\ out_buffer' = w_buff
    /\ consumed' = ConsumeHint(w_osize, w_n)
    /\ ret' = <<w_n>>
    /\ op' = "work"
    /\ exc' = "none"
    /\ WorkDone
    /\ UNCHANGED <<cfg, msg, content, pre_buffer, output_size, ninput, out,
                   enqueued, emitted>>

RaceNext ==
    \/ \E raw \in RawPackets : HandleMsg(raw)
    \/ \E osize \in 0..MaxOutput, nin \in 0..MaxInput : WorkStart(osize, nin)
    \/ WorkSize
    \/ WorkSliceData
    \/ WorkSliceBuff
    \/ WorkAssign
    \/ WorkStore

RaceSpec == Init /\ [][RaceNext]_vars

(***************************************************************************)
(* Quantities the properties speak of.                                     *)
(***************************************************************************)
IsPrefix(a, b) == Len(a) <= Len(b) /\ SubSeq(b, 1, Len(a)) = a

\* the frames that have left the queue, given the queue q
GoneOf(q) == SubSeq(enqueued, 1, Len(enqueued) - Len(q))

\* the bytes of the head frame of q already emitted when `done` bytes were
\* emitted in all
CursorOf(q, done) == done - Len(Flatten(GoneOf(q)))

\* cursor and remaining bytes of the head frame before the last work call
PreCursor == CursorOf(pre_buffer, Len(emitted) - Len(out))
PreRemaining == IF pre_buffer = <<>> THEN 0 ELSE Len(pre_buffer[1]) - PreCursor

\* the same after the last call
Cursor == CursorOf(out_buffer, Len(emitted))
Remaining == IF out_buffer = <<>> THEN 0 ELSE Len(out_buffer[1]) - Cursor

WorkReturned == op = "work" /\ ret # <<>>
Framed == op = "handle_msg" /\ exc = "none"

(***************************************************************************)
(* Properties.                                                             *)
(***************************************************************************)
\* C1: every work call that reports a number of produced bytes reports at
\* most the offered output capacity and at most the bytes of the head frame
\* that were not yet emitted before the call.
C1_CapacityBound ==
    WorkReturned => ret[1] <= output_size /\ ret[1] <= PreRemaining

\* a work call returned although more capacity was offered than was available
C1_Witness == WorkReturned /\ output_size > PreRemaining

\* C2: with a non-empty queue, work with capacity c produces exactly
\* n = min(remaining bytes of the head frame, c) bytes, the head frame's bytes
\* at offsets cursor .. cursor+n-1.
C2_ProducesHeadBytes ==
    (op = "work" /\ pre_buffer # <<>>) =>
        LET n == Min(PreRemaining, output_size)
        IN /\ ret = <<n>>
           /\ out = SubSeq(pre_buffer[1], PreCursor + 1, PreCursor + n)

C4_PartialFrameCarried ==
    (op = "work" /\ pre_buffer # <<>> /\ 0 < output_size /\ output_size < PreRemaining) =>
        /\ ret = <<output_size>>
        /\ out = SubSeq(pre_buffer[1], PreCursor + 1, PreCursor + output_size)
        /\ out_buffer = pre_buffer
        /\ Remaining = PreRemaining - output_size

C7_IdleQueue ==
    (op = "work" /\ pre_buffer = <<>>) =>
        /\ ret = <<0>>
        /\ out = <<>>
        /\ consumed = <<ninput>>
        /\ out_buffer = <<>>

\* work was called on the empty queue with capacity and pending input
C7_Witness ==
    /\ op = "work"
    /\ pre_buffer = <<>>
    /\ output_size >= 1
    /\ ninput >= 1

\* C8 as stated: for a raw packet of length >= 2 the Length byte is
\* 3 + len(raw) - 2 and the segment has Length + 1 bytes.
C8_LengthAsStated ==
    (Framed /\ Len(msg) >= 2) =>
        /\ content[1] = 3 + Len(msg) - 2
        /\ Len(content) = content[1] + 1

\* C8 amended: for a raw packet of length >= 2 that handle_msg frames, the
\* Length byte is len(raw) + 3, the number of bytes after the length byte,
\* and the segment has Length + 1 bytes.
C8_LengthField ==
    (Framed /\ Len(msg) >= 2) =>
        /\ content[1] = Len(msg) + 3
        /\ Len(content) = content[1] + 1

\* a packet with an HWID and bytes after it was framed
C8_Witness == Framed /\ Len(msg) >= 3

C10_ChecksumLittleEndian ==
    Framed =>
        LET n == Len(content)
            c == crc16(SubSeq(content, 1, n - 2))
        IN /\ content[n - 1] = c % 256
           /\ content[n] = c \div 256

\* a packet was framed whose checksum has different low and high bytes
C10_Witness ==
    /\ Framed
    /\ Len(msg) >= 2
    /\ content[Len(content) - 1] # content[Len(content)]

\* the frame the last handle_msg appended, and the length of its preamble
LastFrame == out_buffer[Len(out_buffer)]
PreambleLen == preamble_bytes + 2 * sync_words
AfterPreamble == SubSeq(LastFrame, PreambleLen + 1, Len(LastFrame))
ValidCounts == preamble_bytes >= 0 /\ sync_words >= 0

\* C11: what follows the preamble in the queued frame is fec(whiten(x)) with
\* both flags, whiten(x) with whitening only, fec(x) with FEC only and x with
\* neither, x being the data segment; with both flags it is not
\* whiten(fec(x)).
C11_WhitenBeforeFec ==
    (Framed /\ ValidCounts) =>
        /\ (whitening /\ fec) =>
               /\ AfterPreamble = encode_fec(whiten(content))
               /\ AfterPreamble # whiten(encode_fec(content))
        /\ (whitening /\ ~fec) => AfterPreamble = whiten(content)
        /\ (~whitening /\ fec) => AfterPreamble = encode_fec(content)
        /\ (~whitening /\ ~fec) => AfterPreamble = content

\* a packet was framed with both whitening and FEC enabled
C11_Witness == Framed /\ ValidCounts /\ whitening /\ fec /\ Len(msg) >= 2

\* C12: every queued frame starts with preamble_bytes copies of 0xAA and
\* sync_words copies of (sync_byte1, sync_byte0), whatever the fec and
\* whitening flags, and the transformed data segment follows immediately.
C12_PreamblePurity ==
    (Framed /\ ValidCounts) =>
        /\ Len(LastFrame) >= PreambleLen
        /\ \A i \in 1..preamble_bytes : LastFrame[i] = PreambleByte
        /\ \A k \in 1..sync_words :
               /\ LastFrame[preamble_bytes + 2 * k - 1] = sync_byte1
               /\ LastFrame[preamble_bytes + 2 * k] = sync_byte0
        /\ AfterPreamble = Transform(content, whitening, fec)

\* a frame with preamble and sync word was built with whitening and FEC on
C12_Witness ==
    /\ Framed
    /\ preamble_bytes >= 1
    /\ sync_words >= 1
    /\ whitening
    /\ fec

\* C13: handle_msg with a raw packet shorter than 2 bytes fails and leaves
\* the queue exactly as it was.
C13_ShortPacketRejected ==
    (op = "handle_msg" /\ Len(msg) < 2) =>
        /\ exc # "none"
        /\ out_buffer = pre_buffer

\* C14: no instance with a negative preamble_bytes or sync_words count
\* reaches a state in which handle_msg or work has run.
C14_NegativeCountsRejected ==
    op \in {"handle_msg", "work"} => ValidCounts

\* C15: when the queue is non-empty and work produces n bytes for capacity
\* c, consume is called with c - n if c > n and is not called if c = n, so
\* that produced plus discarded equals c.
C15_TickFullyConsumed ==
    (op = "work" /\ pre_buffer # <<>>) =>
        LET n == Len(out)
            discarded == IF consumed = <<>> THEN 0 ELSE consumed[1]
        IN /\ output_size > n => consumed = <<output_size - n>>
           /\ output_size = n => consumed = <<>>
           /\ n + discarded = output_size

\* C16: a handle_msg call on a valid packet makes the queue one frame
\* longer, the new frame being the last one, keeps every queued frame in its
\* place and leaves the emission progress as it was.
C16_AppendsOneFrame ==
    [][(op' = "handle_msg" /\ exc' = "none" /\ Len(msg') >= 2) =>
          /\ Len(out_buffer') = Len(out_buffer) + 1
          /\ SubSeq(out_buffer', 1, Len(out_buffer)) = out_buffer
          /\ out_buffer'[Len(out_buffer')] =
                 Preamble(preamble_bytes, sync_words)
                     \o Transform(content', whitening, fec)
          /\ emitted' = emitted
          /\ CursorOf(out_buffer', Len(emitted'))
                 = CursorOf(out_buffer, Len(emitted))]_vars

\* a valid packet was framed while a different frame was already queued
C16_Witness ==
    /\ Framed
    /\ Len(msg) >= 2
    /\ Len(out_buffer) = 2
    /\ out_buffer[1] # out_buffer[2]

C18_NeverStalls ==
    (op = "work" /\ pre_buffer # <<>> /\ output_size >= 1) => Len(out) >= 1

\* C20: no queued frame carries a wrapped length byte; handle_msg with a raw
\* packet of len(raw) + 3 > 255 raises and leaves the queue as it was.
C20_LengthByteNeverWraps ==
    op = "handle_msg" =>
        /\ Len(msg) + 3 > 255 =>
               /\ exc # "none"
               /\ out_buffer = pre_buffer
        /\ exc = "none" =>
               /\ content[1] = Len(msg) + 3
               /\ content[1] < ByteRange

\* handle_msg was called with a packet too long for the length byte while a
\* frame was queued
C20_Witness ==
    /\ op = "handle_msg"
    /\ Len(msg) + 3 > 255
    /\ pre_buffer # <<>>

\* C19: under every interleaving of handle_msg with the statements of
\* work, once no work call is in progress the queue is what is left of the
\* enqueued frames, the last frame appended in tail position, and every
\* frame that is not in the queue has been emitted.
C19_NoFrameLostToRace ==
    wpc = "idle" =>
        /\ Len(out_buffer) <= Len(enqueued)
        /\ \A i \in 1..Len(out_buffer) :
               out_buffer[i] = enqueued[Len(enqueued) - Len(out_buffer) + i]
        /\ Len(Flatten(GoneOf(out_buffer))) <= Len(emitted)

====
